---------------------------- MODULE Spec2Model ----------------------------
(***************************************************************************)
(* State-machine model of the VideoMind AI job pipeline: the video_jobs    *)
(* and directory_entries tables, the submission endpoints, the background  *)
(* pipeline task, the article task and the recovery endpoints.             *)
(*                                                                         *)
(* A row of video_jobs is a record; the table is the sequence `jobs`, the  *)
(* index of a row is its id (ids come from uuid4, so they are fresh and    *)
(* never reused).  The directory_entries table is the sequence `entries`.  *)
(* A background task is an element of `tasks`; its pc is the place in      *)
(* process_video_background / process_article_background it has reached.   *)
(* Task steps are split at every db.commit(): whatever a task holds only   *)
(* in its SQLAlchemy session is task-local until the commit that flushes   *)
(* it, and other sessions (other workers, the thread pool that runs the    *)
(* synchronous article task) see the table between two commits.            *)
(***************************************************************************)
EXTENDS Naturals, Sequences, FiniteSets, TLC

VARIABLES jobs, entries, tasks, now, temp_dirs, call

vars == <<jobs, entries, tasks, now, temp_dirs, call>>

-----------------------------------------------------------------------------
(* Bounds of the model.                                                    *)

MaxJobs == 3
MaxArticleTasks == 2
MaxBatchLen == 2

-----------------------------------------------------------------------------
(* Values.                                                                 *)

NULL == "NULL"

\* models/video.py ProcessingStatus
PENDING == "pending"
DOWNLOADING == "downloading"
TRANSCRIBING == "transcribing"
ENHANCING == "enhancing"
COMPLETED == "completed"
FAILED == "failed"

ProcessingStatus == {PENDING, DOWNLOADING, TRANSCRIBING, ENHANCING, COMPLETED, FAILED}

\* The status list of the deduplication check of both submit endpoints.
ActiveOrCompleted == {PENDING, DOWNLOADING, TRANSCRIBING, ENHANCING, COMPLETED}

\* URLs a caller may send.  "yt" stands for a well-formed YouTube watch URL,
\* "rm" for a well-formed Rumble URL, "bad" for a URL of another site.
VideoUrls == {"yt", "rm"}
OtherUrls == {"bad"}
SubmittedUrls == VideoUrls \cup OtherUrls
ArticleUrls == {"art"}

\* validate_video_url: the platform the URL patterns recognise, or "none".
validate_video_url(url) ==
    CASE url = "yt" -> [ok |-> TRUE, platform |-> "youtube"]
      [] url = "rm" -> [ok |-> TRUE, platform |-> "rumble"]
      [] OTHER -> [ok |-> FALSE, platform |-> "none"]

\* determine_processing_method refusing a URL the patterns do not recognise.
determine_processing_method_refusing(url) ==
    LET v == validate_video_url(url) IN
    IF ~v.ok THEN "unsupported"
    ELSE IF v.platform = "youtube" THEN "youtube_transcript"
    ELSE "download_audio"

\* YouTubeService.determine_processing_method
determine_processing_method(url) ==
    LET v == validate_video_url(url) IN
    IF ~v.ok THEN "whisper_primary"
    ELSE IF v.platform = "youtube" THEN "youtube_transcript"
    ELSE "download_audio"

-----------------------------------------------------------------------------
(* Rows.                                                                   *)

\* VideoJob(...) as the submit endpoints build it; retry_count is a String
\* column whose default "0" is applied at INSERT.  created_at is utcnow() at
\* the INSERT, so the rows of `jobs` are in created_at order.
NewJob(url) ==
    [url |-> url, status |-> PENDING, retry_count |-> "0",
     error_message |-> NULL, transcript |-> NULL, ai_enhanced |-> NULL,
     completed_at |-> NULL]

JobIds == 1..Len(jobs)
EntryIds == 1..Len(entries)
TaskIds == 1..Len(tasks)

JobsWithUrl(url) == {j \in JobIds : jobs[j].url = url}

\* db.query(VideoJob).filter(VideoJob.youtube_url == url).first(): the query
\* has no ORDER BY, so any matching row may be the one returned; 0 is None.
FirstJobByUrl(url) == IF JobsWithUrl(url) = {} THEN {0} ELSE JobsWithUrl(url)

EntriesByVideoUrl(url) == {e \in EntryIds : entries[e].video_url = url}
EntriesBySourceUrl(url) == {e \in EntryIds : entries[e].source_url = url}
EntriesByEitherUrl(url) == EntriesByVideoUrl(url) \cup EntriesBySourceUrl(url)

FirstOf(S) == IF S = {} THEN {0} ELSE S

NewTask(kind, job, url) ==
    [kind |-> kind, job |-> job, url |-> url, pc |-> "queued",
     existing |-> 0, enhanced |-> NULL, ts |-> 0]

\* No service function is being called on its own.
NoCall == [fn |-> "none", returned |-> FALSE]

\* temp_dirs holds the ids of the jobs whose directory temp/job_<id> exists.
Init ==
    /\ jobs = <<>>
    /\ entries = <<>>
    /\ tasks = <<>>
    /\ now = 1
    /\ temp_dirs = {}
    /\ call = NoCall

\* What a request handler does, as a value: the response (result, and job_id
\* when the response carries one, else 0) and the tables after its commits.
Outcome(result, job_id, newJobs, newTasks) ==
    [result |-> result, job_id |-> job_id, jobs |-> newJobs, tasks |-> newTasks]

Rejected(result) == Outcome(result, 0, jobs, tasks)

Apply(o) ==
    /\ jobs' = o.jobs
    /\ tasks' = o.tasks
    /\ UNCHANGED <<entries, now, temp_dirs, call>>

-----------------------------------------------------------------------------
(* POST /process: submit_video_for_processing.                             *)

\* submit_video_for_processing without the check of validate_video_url.
submit_video_unvalidated(url, emailOk, infoOk, existing_job) ==
    IF ~emailOk THEN Rejected("400_invalid_email")
    ELSE IF existing_job # 0 /\ jobs[existing_job].status \in ActiveOrCompleted
    THEN Outcome("existing_job", existing_job, jobs, tasks)
    ELSE IF EntriesByEitherUrl(url) # {} THEN Rejected("already_in_directory")
    ELSE IF ~infoOk THEN Rejected("400_video_info")
    ELSE Outcome("submitted", Len(jobs) + 1,
                 Append(jobs, NewJob(url)),
                 Append(tasks, NewTask("video", Len(jobs) + 1, url)))

\* The handler for one request: url is the posted URL, emailOk whether
\* validate_email accepts the address, infoOk whether get_video_info
\* succeeds, existing_job the row the first query returns (0 for None).
submit_video_for_processing(url, emailOk, infoOk, existing_job) ==
    IF ~validate_video_url(url).ok THEN Rejected("400_invalid_url")
    ELSE IF ~emailOk THEN Rejected("400_invalid_email")
    ELSE IF existing_job # 0 /\ jobs[existing_job].status \in ActiveOrCompleted
    THEN Outcome("existing_job", existing_job, jobs, tasks)
    ELSE IF EntriesByEitherUrl(url) # {} THEN Rejected("already_in_directory")
    ELSE IF ~infoOk THEN Rejected("400_video_info")
    ELSE Outcome("submitted", Len(jobs) + 1,
                 Append(jobs, NewJob(url)),
                 Append(tasks, NewTask("video", Len(jobs) + 1, url)))

SubmitVideo ==
    \E url \in SubmittedUrls, emailOk \in BOOLEAN, infoOk \in BOOLEAN :
        \E existing_job \in FirstJobByUrl(url) :
            LET o == submit_video_for_processing(url, emailOk, infoOk, existing_job)
            IN Len(o.jobs) <= MaxJobs /\ Apply(o)

-----------------------------------------------------------------------------
(* POST /process/batch: submit_batch_videos_for_processing.                *)

BatchInputs == UNION {[1..n -> SubmittedUrls] : n \in 1..MaxBatchLen}

\* What the queries and get_video_info calls of the loop may return: pick[i]
\* is the row the i-th .first() returns (0 for None), info[i] whether
\* get_video_info succeeds for the i-th URL.  The session does not autoflush
\* and commits after the loop, so every query reads the table as on entry.
BatchPicks(urls) ==
    {pick \in [DOMAIN urls -> 0..Len(jobs)] :
        \A i \in DOMAIN urls : pick[i] \in FirstJobByUrl(urls[i])}

\* The URLs of the batch for which the loop builds a VideoJob, in order.
RECURSIVE BatchCreated(_, _, _, _)
BatchCreated(urls, pick, info, i) ==
    IF i > Len(urls) THEN <<>>
    ELSE LET url == urls[i]
             skip == \/ ~validate_video_url(url).ok
                     \/ (pick[i] # 0 /\ jobs[pick[i]].status \in ActiveOrCompleted)
                     \/ ~info[i]
         IN (IF skip THEN <<>> ELSE <<url>>) \o BatchCreated(urls, pick, info, i + 1)

submit_batch_videos_for_processing(urls, tierOk, pick, info) ==
    IF ~tierOk THEN Rejected("400_tier")
    ELSE LET created == BatchCreated(urls, pick, info, 1) IN
         Outcome("batch_submitted", 0,
                 jobs \o [i \in DOMAIN created |-> NewJob(created[i])],
                 tasks \o [i \in DOMAIN created |->
                              NewTask("video", Len(jobs) + i, created[i])])

\* get_video_info is called only for a valid URL whose query found no active
\* job; info[i] is TRUE wherever the call is not made.
BatchInfos(urls, pick) ==
    {info \in [DOMAIN urls -> BOOLEAN] :
        \A i \in DOMAIN urls :
            (\/ ~validate_video_url(urls[i]).ok
             \/ (pick[i] # 0 /\ jobs[pick[i]].status \in ActiveOrCompleted))
            => info[i]}

SubmitBatch ==
    \E urls \in BatchInputs :
        \/ LET o == submit_batch_videos_for_processing(
                         urls, FALSE, [i \in DOMAIN urls |-> 0], [i \in DOMAIN urls |-> TRUE])
           IN o.result = "400_tier" /\ Apply(o)
        \/ \E pick \in BatchPicks(urls) : \E info \in BatchInfos(urls, pick) :
              LET o == submit_batch_videos_for_processing(urls, TRUE, pick, info)
              IN Len(o.jobs) <= MaxJobs /\ Apply(o)

-----------------------------------------------------------------------------
(* process_video_background: the pipeline task of one job.                 *)

Min(a, b) == IF a < b THEN a ELSE b
Max(a, b) == IF a > b THEN a ELSE b

\* What enhance_with_ai can hand back: "ai" is parsed JSON of the asked shape,
\* "ai_malformed" parsed JSON whose topics are not strings, "parse_fallback"
\* the fixed payload after a JSONDecodeError (success is still True),
\* "error_fallback" the fixed payload of the except branch (success False).
EnhanceOutcomes == {"ai", "ai_malformed", "parse_fallback", "error_fallback"}

\* Length of qa_pairs and of topics in each payload (basic tier).
QaPairs(e) == IF e \in {"ai", "ai_malformed"} THEN 5 ELSE 1
Topics(e) == IF e \in {"ai", "ai_malformed"} THEN 5 ELSE 3

\* directory_mapper.infer_signal_score, for a transcript of at most 1200 words.
infer_signal_score(e) ==
    Max(1, Min(100, 65 + Min(QaPairs(e) * 2, 12) + Min(Topics(e) * 2, 10)))

\* The payload upsert_directory_entry_from_job builds from the job.
EntryFromJob(j, url, e, t) ==
    [source_job_id |-> j, video_url |-> url, source_url |-> url,
     content_type |-> "video", summary |-> e,
     signal_score |-> infer_signal_score(e),
     created_at |-> t, updated_at |-> t]

\* The existing row with every key of the payload but created_at overwritten.
UpdateEntry(old, payload) == [payload EXCEPT !.created_at = old.created_at]

SetPc(t, pc) == [tasks EXCEPT ![t].pc = pc]

\* MarkFailed that leaves the error message as it was.
MarkFailedNoMessage(job, msg) ==
    [job EXCEPT !.status = FAILED, !.completed_at = "set"]

\* job.status = FAILED; job.error_message = msg; job.completed_at = utcnow()
MarkFailed(job, msg) ==
    [job EXCEPT !.status = FAILED, !.error_message = msg, !.completed_at = "set"]

\* Lines 442-459, 485-497, 534-537: load the job, resolve the method, commit
\* the first status.
\* TaskStart with the first status assigned but its commit left to the
\* next one: the extraction is called with the row still as it was.
TaskStartCommitsLater(t) ==
    /\ tasks[t].kind = "video" /\ tasks[t].pc = "queued"
    /\ LET j == tasks[t].job
           method == determine_processing_method(jobs[j].url)
       IN IF j \notin JobIds THEN tasks' = SetPc(t, "done")
          ELSE IF method = "youtube_transcript"
          THEN tasks' = SetPc(t, "youtube_transcript")
          ELSE IF method \in {"whisper_first", "whisper_primary"}
          THEN tasks' = SetPc(t, "process_whisper_first")
          ELSE tasks' = SetPc(t, "download_audio")
    /\ UNCHANGED <<jobs, entries, now, temp_dirs, call>>

TaskStart(t) ==
    /\ tasks[t].kind = "video" /\ tasks[t].pc = "queued"
    /\ LET j == tasks[t].job
           method == determine_processing_method(jobs[j].url)
       IN IF j \notin JobIds THEN
              /\ tasks' = SetPc(t, "done")
              /\ UNCHANGED jobs
          ELSE IF method = "youtube_transcript" THEN
              /\ jobs' = [jobs EXCEPT ![j].status = TRANSCRIBING]
              /\ tasks' = SetPc(t, "youtube_transcript")
          ELSE IF method \in {"whisper_first", "whisper_primary"} THEN
              \* Only a URL validate_video_url rejects resolves to this
              \* method, and no endpoint creates a job for such a URL.
              /\ jobs' = [jobs EXCEPT ![j].status = DOWNLOADING]
              /\ tasks' = SetPc(t, "process_whisper_first")
          ELSE
              /\ jobs' = [jobs EXCEPT ![j].status = DOWNLOADING]
              /\ tasks' = SetPc(t, "download_audio")
    /\ UNCHANGED <<entries, now>>
    /\ UNCHANGED <<temp_dirs, call>>

\* YoutubeTranscript going on to the download after the caption API has
\* answered with a transcript.
YoutubeTranscriptThenDownload(t) ==
    /\ tasks[t].kind = "video" /\ tasks[t].pc = "youtube_transcript"
    /\ LET j == tasks[t].job IN
       \E success \in BOOLEAN :
          IF success THEN
              /\ jobs' = [jobs EXCEPT ![j].transcript = "youtube_transcript",
                                      ![j].status = DOWNLOADING]
              /\ tasks' = SetPc(t, "download_audio")
          ELSE
              /\ jobs' = [jobs EXCEPT ![j] = MarkFailed(@, "extraction_error")]
              /\ tasks' = SetPc(t, "done")
    /\ UNCHANGED <<entries, now, temp_dirs, call>>

\* YoutubeTranscript without the return that ends the task after a failed
\* extraction: the job is marked failed and the task goes on to enhance.
YoutubeTranscriptNoReturn(t) ==
    /\ tasks[t].kind = "video" /\ tasks[t].pc = "youtube_transcript"
    /\ LET j == tasks[t].job IN
       \E success \in BOOLEAN :
          IF success THEN
              /\ jobs' = [jobs EXCEPT ![j].transcript = "youtube_transcript",
                                      ![j].status = ENHANCING]
              /\ tasks' = SetPc(t, "enhance_with_ai")
          ELSE
              /\ jobs' = [jobs EXCEPT ![j] = MarkFailed(@, "extraction_error")]
              /\ tasks' = SetPc(t, "enhance_with_ai")
    /\ UNCHANGED <<entries, now>>
    /\ UNCHANGED <<temp_dirs, call>>

\* Lines 461-483 and 572-574: the caption API answers; on success the
\* transcript is set and flushed by the commit of the enhancing status.
YoutubeTranscript(t) ==
    /\ tasks[t].kind = "video" /\ tasks[t].pc = "youtube_transcript"
    /\ LET j == tasks[t].job IN
       \E success \in BOOLEAN :
          IF success THEN
              /\ jobs' = [jobs EXCEPT ![j].transcript = "youtube_transcript",
                                      ![j].status = ENHANCING]
              /\ tasks' = SetPc(t, "enhance_with_ai")
          ELSE
              /\ jobs' = [jobs EXCEPT ![j] = MarkFailed(@, "extraction_error")]
              /\ tasks' = SetPc(t, "done")
    /\ UNCHANGED <<entries, now>>
    /\ UNCHANGED <<temp_dirs, call>>

\* Lines 539-549: download_audio answers.  It makes the directory
\* temp/job_<id> once get_video_info has succeeded (youtube_service.py
\* 281-287), whether or not the download then succeeds.
DownloadAudio(t) ==
    /\ tasks[t].kind = "video" /\ tasks[t].pc = "download_audio"
    /\ LET j == tasks[t].job IN
       \E success \in BOOLEAN, made_dir \in BOOLEAN :
          /\ success => made_dir
          /\ temp_dirs' = IF made_dir THEN temp_dirs \cup {j} ELSE temp_dirs
          /\ IF success THEN
                 /\ jobs' = [jobs EXCEPT ![j].status = TRANSCRIBING]
                 /\ tasks' = SetPc(t, "transcribe")
             ELSE
                 /\ jobs' = [jobs EXCEPT ![j] = MarkFailed(@, "download_error")]
                 /\ tasks' = SetPc(t, "done")
    /\ UNCHANGED <<entries, now>>
    /\ UNCHANGED call

\* Transcribe with a failed Whisper call answered by downloading the audio
\* again instead of failing the job.
TranscribeRedownloads(t) ==
    /\ tasks[t].kind = "video" /\ tasks[t].pc = "transcribe"
    /\ LET j == tasks[t].job IN
       \E whisper_success \in BOOLEAN :
          IF whisper_success THEN
              /\ jobs' = [jobs EXCEPT ![j].transcript = "whisper_api",
                                      ![j].status = ENHANCING]
              /\ tasks' = SetPc(t, "enhance_with_ai")
          ELSE
              /\ jobs' = [jobs EXCEPT ![j].status = DOWNLOADING]
              /\ tasks' = SetPc(t, "download_audio")
    /\ UNCHANGED <<entries, now>>
    /\ UNCHANGED <<temp_dirs, call>>

\* Lines 551-574: Whisper answers.
Transcribe(t) ==
    /\ tasks[t].kind = "video" /\ tasks[t].pc = "transcribe"
    /\ LET j == tasks[t].job IN
       \E whisper_success \in BOOLEAN :
          IF whisper_success THEN
              /\ jobs' = [jobs EXCEPT ![j].transcript = "whisper_api",
                                      ![j].status = ENHANCING]
              /\ tasks' = SetPc(t, "enhance_with_ai")
          ELSE
              /\ jobs' = [jobs EXCEPT ![j] = MarkFailed(@, "transcription_error")]
              /\ tasks' = SetPc(t, "done")
    /\ UNCHANGED <<entries, now>>
    /\ UNCHANGED <<temp_dirs, call>>

\* YouTubeService.get_video_info: the URL is validated before yt-dlp is
\* asked, so a URL validate_video_url rejects never yields video info.
get_video_info(url, extractOk) == validate_video_url(url).ok /\ extractOk

\* YouTubeService.process_youtube_transcript: get_video_info, then the
\* caption API; the result names the method or carries the error.
process_youtube_transcript(url, extractOk, captionOk) ==
    IF ~get_video_info(url, extractOk)
    THEN [success |-> FALSE, method |-> "none", error |-> "video_info_error"]
    ELSE IF ~captionOk
    THEN [success |-> FALSE, method |-> "none", error |-> "extraction_error"]
    ELSE [success |-> TRUE, method |-> "youtube_transcript", error |-> "none"]

\* YouTubeService.process_whisper_first: get_video_info, then download and
\* Whisper; when either fails, the answer of process_youtube_transcript.
process_whisper_first(url, extractOk, audioOk, whisperOk, captionOk) ==
    IF ~get_video_info(url, extractOk)
    THEN [success |-> FALSE, method |-> "none", error |-> "video_info_error"]
    ELSE IF audioOk /\ whisperOk
    THEN [success |-> TRUE, method |-> "whisper_enhanced", error |-> "none"]
    ELSE process_youtube_transcript(url, extractOk, captionOk)

\* EnhanceAndUpsert with the exception of the upsert escaping the task: the
\* task ends and nothing marks the job failed.
EnhanceAndUpsertUncaught(t) ==
    /\ tasks[t].kind = "video" /\ tasks[t].pc = "enhance_with_ai"
    /\ LET j == tasks[t].job IN
       \E e \in EnhanceOutcomes :
          IF e = "ai_malformed" THEN
              /\ tasks' = SetPc(t, "done")
              /\ UNCHANGED <<jobs, now>>
          ELSE
              \E existing \in FirstOf(EntriesByVideoUrl(jobs[j].url)) :
                  /\ tasks' = [tasks EXCEPT ![t].pc = "commit",
                                            ![t].enhanced = e,
                                            ![t].existing = existing,
                                            ![t].ts = now]
                  /\ now' = now + 1
                  /\ UNCHANGED jobs
    /\ UNCHANGED entries
    /\ UNCHANGED <<temp_dirs, call>>

\* Lines 578-608: enhance_with_ai answers; ai_enhanced, download_links, the
\* completed status and completed_at are set on the session's object, and
\* upsert_directory_entry_from_job builds the payload and looks the entry up.
\* Nothing is committed yet.  A payload whose topics are not strings makes
\* infer_category raise: the except branch (617-624) then marks the job
\* failed and its commit flushes the ai_enhanced the session already holds.
EnhanceAndUpsert(t) ==
    /\ tasks[t].kind = "video" /\ tasks[t].pc = "enhance_with_ai"
    /\ LET j == tasks[t].job IN
       \E e \in EnhanceOutcomes :
          IF e = "ai_malformed" THEN
              /\ jobs' = [jobs EXCEPT ![j] =
                             [MarkFailed(@, "Processing error") EXCEPT !.ai_enhanced = e]]
              /\ tasks' = SetPc(t, "done")
              /\ UNCHANGED now
          ELSE
              \E existing \in FirstOf(EntriesByVideoUrl(jobs[j].url)) :
                  /\ tasks' = [tasks EXCEPT ![t].pc = "commit",
                                            ![t].enhanced = e,
                                            ![t].existing = existing,
                                            ![t].ts = now]
                  /\ now' = now + 1
                  /\ UNCHANGED jobs
    /\ UNCHANGED entries
    /\ UNCHANGED <<temp_dirs, call>>

\* PublishCommit that keeps the entry the session holds when the commit
\* fails: the job is marked failed and the entry is written all the same.
PublishCommitKeepsEntry(t) ==
    /\ tasks[t].kind = "video" /\ tasks[t].pc = "commit"
    /\ LET j == tasks[t].job
           url == jobs[j].url
           payload == EntryFromJob(j, url, tasks[t].enhanced, tasks[t].ts)
           existing == tasks[t].existing
       IN IF existing = 0 /\ EntriesByVideoUrl(url) # {} THEN
              /\ jobs' = [jobs EXCEPT ![j] = MarkFailed(@, "Processing error")]
              /\ entries' = Append(entries, payload)
              /\ UNCHANGED temp_dirs
          ELSE
              /\ jobs' = [jobs EXCEPT ![j].status = COMPLETED,
                                      ![j].ai_enhanced = tasks[t].enhanced,
                                      ![j].completed_at = "set"]
              /\ entries' = IF existing = 0 THEN Append(entries, payload)
                            ELSE [entries EXCEPT ![existing] = UpdateEntry(@, payload)]
              /\ temp_dirs' = temp_dirs \ {j}
    /\ tasks' = SetPc(t, "done")
    /\ UNCHANGED now
    /\ UNCHANGED call

\* PublishCommit without the upsert: the job is committed as completed and
\* no entry is written.
PublishCommitWithoutEntry(t) ==
    /\ tasks[t].kind = "video" /\ tasks[t].pc = "commit"
    /\ jobs' = [jobs EXCEPT ![tasks[t].job].status = COMPLETED,
                            ![tasks[t].job].ai_enhanced = tasks[t].enhanced,
                            ![tasks[t].job].completed_at = "set"]
    /\ tasks' = SetPc(t, "done")
    /\ temp_dirs' = temp_dirs \ {tasks[t].job}
    /\ UNCHANGED <<entries, now>>
    /\ UNCHANGED call

\* Lines 610-613 and 617-624: db.commit() flushes the job and the entry,
\* and cleanup_audio_file then removes temp/job_<id>; the except branch
\* removes nothing.
\* video_url is unique: the INSERT of a second entry for the URL raises, the
\* session rolls back, and the except branch marks the job failed.
PublishCommit(t) ==
    /\ tasks[t].kind = "video" /\ tasks[t].pc = "commit"
    /\ LET j == tasks[t].job
           url == jobs[j].url
           payload == EntryFromJob(j, url, tasks[t].enhanced, tasks[t].ts)
           existing == tasks[t].existing
       IN IF existing = 0 /\ EntriesByVideoUrl(url) # {} THEN
              /\ jobs' = [jobs EXCEPT ![j] = MarkFailed(@, "Processing error")]
              /\ UNCHANGED <<entries, temp_dirs>>
          ELSE
              /\ jobs' = [jobs EXCEPT ![j].status = COMPLETED,
                                      ![j].ai_enhanced = tasks[t].enhanced,
                                      ![j].completed_at = "set"]
              /\ entries' = IF existing = 0 THEN Append(entries, payload)
                            ELSE [entries EXCEPT ![existing] = UpdateEntry(@, payload)]
              /\ temp_dirs' = temp_dirs \ {j}
    /\ tasks' = SetPc(t, "done")
    /\ UNCHANGED now
    /\ UNCHANGED call

VideoTask ==
    \/ \E t \in TaskIds : TaskStart(t)
    \/ \E t \in TaskIds : YoutubeTranscript(t)
    \/ \E t \in TaskIds : DownloadAudio(t)
    \/ \E t \in TaskIds : Transcribe(t)
    \/ \E t \in TaskIds : EnhanceAndUpsert(t)
    \/ \E t \in TaskIds : PublishCommit(t)

-----------------------------------------------------------------------------
(* Recovery endpoints.                                                     *)

FailedJobs == {j \in JobIds : jobs[j].status = FAILED}

\* The `limit` most recently created failed jobs
\* (order_by(created_at.desc()).limit(limit)).
NewestFailed(limit) ==
    {j \in FailedJobs : Cardinality({k \in FailedJobs : k > j}) < limit}

\* retry_failed_jobs that resubmits each selected job as a new row instead
\* of resetting the row it has.
retry_failed_jobs_as_new_rows(limit) ==
    Outcome("ok", 0,
            jobs \o [i \in 1..Cardinality(NewestFailed(limit)) |-> NewJob("yt")],
            tasks)

\* process.py retry_failed_jobs: status and error_message only; nothing is
\* handed to background_tasks.
retry_failed_jobs(limit) ==
    Outcome("ok", 0,
            [j \in JobIds |->
                IF j \in NewestFailed(limit)
                THEN [jobs[j] EXCEPT !.status = PENDING, !.error_message = NULL]
                ELSE jobs[j]],
            tasks)

RetryFailed ==
    \E limit \in 1..MaxJobs :
        LET o == retry_failed_jobs(limit)
        IN o.result = "ok" /\ Apply(o)

\* Names api/process.py defines that a handler may import.
ProcessModuleNames == {"process_video_background", "process_article_background",
                       "process_articles_batch_background"}

\* Mapped columns of VideoJob.
VideoJobColumns == {"id", "youtube_url", "status", "email", "tier", "created_at",
                    "completed_at", "video_metadata", "transcript", "ai_enhanced",
                    "download_links", "cost", "payment_intent_id", "error_message",
                    "retry_count"}

\* (job.retry_count or 0) + 1 in Python: None and "" are falsy and give the
\* int 1, which the String column stores as "1"; any other str plus an int
\* raises TypeError.
RetryCountPlusOne(rc) ==
    IF rc \in {NULL, ""} THEN [raised |-> FALSE, value |-> "1"]
    ELSE [raised |-> TRUE, value |-> rc]

\* Lines 195-206 of retry_job on one row: the increment, the reset, and the
\* clearing guarded by a test of the status line 198 has just overwritten.
RetryReset(job) ==
    LET reset == [job EXCEPT !.retry_count = RetryCountPlusOne(job.retry_count).value,
                             !.status = PENDING,
                             !.error_message = NULL]
    IN IF reset.status = FAILED
       THEN [reset EXCEPT !.transcript = NULL, !.ai_enhanced = NULL]
       ELSE reset

\* retry_job without the test of the status at lines 178-187.
retry_job_any_status(j) ==
    IF j \notin JobIds THEN Rejected("404")
    ELSE Outcome("ok", j, [jobs EXCEPT ![j] = RetryReset(@)], tasks)

\* retry_job as it would run with an integer retry_count and the task
\* imported under its defined name: the row is reset and a task is queued.
retry_job_enqueuing(j) ==
    IF j \notin JobIds THEN Rejected("404")
    ELSE IF jobs[j].status \notin {FAILED, DOWNLOADING, TRANSCRIBING, ENHANCING}
    THEN Rejected("400")
    ELSE Outcome("ok", j, [jobs EXCEPT ![j] = RetryReset(@)],
                 Append(tasks, NewTask("video", j, jobs[j].url)))

\* jobs.py retry_job.
retry_job(j) ==
    IF j \notin JobIds THEN Rejected("404")
    ELSE IF jobs[j].status \notin {FAILED, DOWNLOADING, TRANSCRIBING, ENHANCING}
    THEN Rejected("400")
    ELSE IF RetryCountPlusOne(jobs[j].retry_count).raised
    THEN Rejected("500_TypeError")
    ELSE IF "process_video_job_background" \notin ProcessModuleNames
    THEN Outcome("500_ImportError", 0, [jobs EXCEPT ![j] = RetryReset(@)], tasks)
    ELSE Outcome("ok", j, [jobs EXCEPT ![j] = RetryReset(@)],
                 Append(tasks, NewTask("video", j, jobs[j].url)))

\* Every outcome is a response of the endpoint, the error responses included.
RetryJob ==
    \E j \in 1..MaxJobs :
        LET o == retry_job(j)
        IN o.result \in {"404", "400", "500_TypeError", "500_ImportError", "ok"} /\ Apply(o)

\* The elements of a set of URLs as a sequence, in some fixed order.
RECURSIVE SeqOfUrls(_)
SeqOfUrls(S) ==
    IF S = {} THEN <<>>
    ELSE LET m == CHOOSE x \in S : TRUE
         IN <<m>> \o SeqOfUrls(S \ {m})

\* VideoJob.retry_count < max_retries in SQL: retry_count is text, so the
\* bound is compared as text.  The counts and bounds of the model have one
\* digit, where the text order is the order of the digits; "" sorts first.
DigitRank(c) ==
    CASE c = "" -> 0 [] c = "0" -> 1 [] c = "1" -> 2 [] c = "2" -> 3
      [] c = "3" -> 4 [] OTHER -> 5
DigitText(n) ==
    CASE n = 0 -> "0" [] n = 1 -> "1" [] n = 2 -> "2" [] n = 3 -> "3" [] OTHER -> "4"
RetryCountBelow(rc, max_retries) == DigitRank(rc) < DigitRank(DigitText(max_retries))

\* The rows the query of retry_all_failed_jobs selects (lines 231-239).
RetryCandidates(max_retries) ==
    {j \in FailedJobs : \/ jobs[j].retry_count = NULL
                        \/ RetryCountBelow(jobs[j].retry_count, max_retries)}

\* The elements of a set of job ids in ascending order.
RECURSIVE Ascending(_)
Ascending(S) ==
    IF S = {} THEN <<>>
    ELSE LET m == CHOOSE x \in S : \A y \in S : x <= y
         IN <<m>> \o Ascending(S \ {m})

\* The BulkRetryResult both bulk handlers of jobs.py return: one RetryResult
\* for each selected job, and the counts.
BulkRetryResult(selected, succeeded) ==
    [total_attempted |-> Cardinality(selected),
     successful_retries |-> Cardinality(succeeded),
     failed_retries |-> Cardinality(selected) - Cardinality(succeeded),
     details |-> [j \in selected |-> [success |-> j \in succeeded]]]

\* An outcome together with the body of its response.
WithBulk(o, bulk) ==
    [result |-> o.result, job_id |-> o.job_id, jobs |-> o.jobs, tasks |-> o.tasks,
     bulk |-> bulk]

\* jobs.py retry_all_failed_jobs: every exception of one iteration is caught
\* and reported for that job; a row reset and committed before the import
\* fails stays reset.
retry_all_failed_jobs(max_retries) ==
    LET selected == RetryCandidates(max_retries)
        resettable == {j \in selected : ~RetryCountPlusOne(jobs[j].retry_count).raised}
        succeeded == IF "process_video_job_background" \in ProcessModuleNames
                     THEN resettable ELSE {}
        queued == Ascending(succeeded)
    IN WithBulk(
         Outcome("ok", 0,
               [j \in JobIds |->
                   IF j \in resettable
                   THEN [jobs[j] EXCEPT
                            !.retry_count = RetryCountPlusOne(jobs[j].retry_count).value,
                            !.status = PENDING, !.error_message = NULL,
                            !.transcript = NULL, !.ai_enhanced = NULL]
                   ELSE jobs[j]],
               tasks \o [i \in DOMAIN queued |->
                            NewTask("video", queued[i], jobs[queued[i]].url)]),
         BulkRetryResult(selected, succeeded))

RetryAllFailed ==
    \E max_retries \in {1, 3} :
        LET o == retry_all_failed_jobs(max_retries)
        IN o.result = "ok" /\ Apply(o)

\* The thresholds of get_stuck_jobs and cleanup_stuck_jobs, in minutes.
ThirtyMinutes == 30
FifteenMinutes == 15

\* Minutes since a job was last updated, as the two handlers are called with.
StuckAges == {14, 16, 29, 31}
AgesAtCleanup == {16, 31}

\* The filter both handlers build: updated_at < utcnow() - threshold.
StuckJobs(age) ==
    {j \in JobIds :
        \/ jobs[j].status = DOWNLOADING /\ age[j] > ThirtyMinutes
        \/ jobs[j].status \in {TRANSCRIBING, ENHANCING} /\ age[j] > FifteenMinutes}

\* jobs.py get_stuck_jobs: the filter names VideoJob.updated_at, which is no
\* column of the model class, so building the query raises AttributeError
\* and no job is listed.
get_stuck_jobs(age) ==
    IF "updated_at" \notin VideoJobColumns
    THEN [result |-> "500_AttributeError", stuck_jobs |-> {}]
    ELSE [result |-> "ok", stuck_jobs |-> StuckJobs(age)]

\* jobs.py cleanup_stuck_jobs: the query compares VideoJob.updated_at, which
\* is no column of the model class, so building the query raises
\* AttributeError before any row is read.
\* The loop that would follow resets each selected row (retry_count, status,
\* an error_message naming the old status; transcript and ai_enhanced are
\* left) and commits it before the import of the task function.
cleanup_stuck_jobs(age) ==
    IF "updated_at" \notin VideoJobColumns THEN Rejected("500_AttributeError")
    ELSE
      LET selected == StuckJobs(age)
          resettable == {j \in selected : ~RetryCountPlusOne(jobs[j].retry_count).raised}
          succeeded == IF "process_video_job_background" \in ProcessModuleNames
                       THEN resettable ELSE {}
          queued == Ascending(succeeded)
      IN WithBulk(
           Outcome("ok", 0,
               [j \in JobIds |->
                   IF j \in resettable
                   THEN [jobs[j] EXCEPT
                            !.retry_count = RetryCountPlusOne(jobs[j].retry_count).value,
                            !.status = PENDING,
                            !.error_message = "Reset from stuck status"]
                   ELSE jobs[j]],
               tasks \o [i \in DOMAIN queued |->
                            NewTask("video", queued[i], jobs[queued[i]].url)]),
           BulkRetryResult(selected, succeeded))

CleanupStuck ==
    \E age \in [JobIds -> AgesAtCleanup] :
        LET o == cleanup_stuck_jobs(age)
        IN o.result \in {"500_AttributeError", "ok"} /\ Apply(o)

\* jobs.py delete_job: 404 for an unknown id; for a row that exists the
\* handler reads job.audio_file_path, which VideoJob does not map, and the
\* AttributeError ends the request before db.delete.  (A deleted row would
\* keep its place in `jobs` with the status "deleted".)
delete_job(j) ==
    IF j \notin JobIds THEN Rejected("404")
    ELSE IF "audio_file_path" \notin VideoJobColumns THEN Rejected("500_AttributeError")
    ELSE Outcome("deleted", j, [jobs EXCEPT ![j].status = "deleted"], tasks)

DeleteJob ==
    \E j \in 1..MaxJobs :
        LET o == delete_job(j)
        IN o.result \in {"404", "500_AttributeError", "deleted"} /\ Apply(o)

-----------------------------------------------------------------------------
(* POST /process/article and process_article_background.                   *)

\* submit_article_for_processing.  The response carries no job id; the task
\* is queued unless an entry with this source_url exists.
submit_article_for_processing(url, emailOk) ==
    IF ~emailOk THEN Rejected("400_invalid_email")
    ELSE IF EntriesBySourceUrl(url) # {} THEN Rejected("already_processed")
    ELSE Outcome("processing_started", 0, jobs,
                 Append(tasks, NewTask("article", 0, url)))

SubmitArticle ==
    \E url \in ArticleUrls \cup VideoUrls, emailOk \in BOOLEAN :
        LET o == submit_article_for_processing(url, emailOk)
        IN /\ Cardinality({t \in 1..Len(o.tasks) : o.tasks[t].kind = "article"})
                <= MaxArticleTasks
           /\ Apply(o)

\* The payload upsert_directory_entry_from_article builds: no video_url, no
\* source_job_id; created_at and updated_at are the column defaults.
EntryFromArticle(url, t) ==
    [source_job_id |-> 0, video_url |-> NULL, source_url |-> url,
     content_type |-> "article", summary |-> "article",
     signal_score |-> 70,
     created_at |-> t, updated_at |-> t]

\* The existing row with the keys of the article payload overwritten: the
\* payload has no video_url, source_job_id or created_at, so these stay.
UpdateEntryFromArticle(old, payload) ==
    [payload EXCEPT !.created_at = old.created_at,
                    !.video_url = old.video_url,
                    !.source_job_id = old.source_job_id]

\* Lines 785 and 638: process_article answers (an exception ends the task),
\* then the upsert looks the entry up by source_url.
ArticleProcess(t) ==
    /\ tasks[t].kind = "article" /\ tasks[t].pc = "queued"
    /\ \E raised \in BOOLEAN :
          IF raised THEN tasks' = SetPc(t, "done")
          ELSE \E existing \in FirstOf(EntriesBySourceUrl(tasks[t].url)) :
                  tasks' = [tasks EXCEPT ![t].pc = "commit", ![t].existing = existing]
    /\ UNCHANGED <<jobs, entries, now>>
    /\ UNCHANGED <<temp_dirs, call>>

\* Lines 661-670: update the row found, or add a new one, and commit.
\* source_url carries no unique constraint, so the INSERT succeeds.
ArticleCommit(t) ==
    /\ tasks[t].kind = "article" /\ tasks[t].pc = "commit"
    /\ LET payload == EntryFromArticle(tasks[t].url, now)
           existing == tasks[t].existing
       IN entries' = IF existing = 0 THEN Append(entries, payload)
                     ELSE [entries EXCEPT ![existing] = UpdateEntryFromArticle(@, payload)]
    /\ tasks' = SetPc(t, "done")
    /\ now' = now + 1
    /\ UNCHANGED jobs
    /\ UNCHANGED <<temp_dirs, call>>

ArticleTask ==
    \/ \E t \in TaskIds : ArticleProcess(t)
    \/ \E t \in TaskIds : ArticleCommit(t)

-----------------------------------------------------------------------------
(* POST /directory/seed.                                                   *)

\* video_url of the starter entries: YouTube watch URLs, which a caller may
\* submit as well.
SeedUrls == {"yt"}

\* Keys the seed dictionaries carry, and the columns of DirectoryEntry that
\* are NOT NULL without a default.
SeedKeys == {"title", "video_url", "creator_name", "category_primary", "difficulty",
             "tools_mentioned", "summary_5_bullets", "best_for", "signal_score",
             "processing_status", "teaches_agent_to", "prompt_template",
             "execution_checklist", "agent_training_script"}
RequiredEntryColumns == {"title", "source_url"}

\* A seed row as the INSERT would store it.
EntryFromSeed(url, t) ==
    [source_job_id |-> 0, video_url |-> url, source_url |-> NULL,
     content_type |-> "video", summary |-> "seed", signal_score |-> 82,
     created_at |-> t, updated_at |-> t]

\* seed_directory_entries: the seeds whose video_url has no entry are added
\* and committed together; a seed lacks source_url, so the INSERT violates
\* NOT NULL and the commit raises with nothing stored.
seed_directory_entries ==
    LET missing == {u \in SeedUrls : EntriesByVideoUrl(u) = {}}
        added == SeqOfUrls(missing)
    IN IF missing # {} /\ ~(RequiredEntryColumns \subseteq SeedKeys)
       THEN [result |-> "500_IntegrityError", created |-> 0, entries |-> entries]
       ELSE [result |-> "ok", created |-> Len(added),
             entries |-> entries \o [i \in DOMAIN added |-> EntryFromSeed(added[i], now)]]

SeedDirectory ==
    /\ seed_directory_entries.result \in {"500_IntegrityError", "ok"}
    /\ entries' = seed_directory_entries.entries
    /\ UNCHANGED <<jobs, tasks, now>>
    /\ UNCHANGED <<temp_dirs, call>>

-----------------------------------------------------------------------------
(* GET /status/{job_id}: get_job_status.                                   *)

\* progress_messages.get(job.status, "Processing...") with the keys hashed
\* by the name of the enum member ("PENDING") and not by its value: no
\* stored status finds its key.
ProgressMessageByMemberName(status, error_message) ==
    [text |-> "Processing...", detail |-> ""]

\* progress_messages.get(job.status, "Processing..."): the text, and for a
\* failed job the detail the f-string appends to "Processing failed: ".
ProgressMessage(status, error_message) ==
    CASE status = PENDING ->
            [text |-> "Waiting to start processing...", detail |-> ""]
      [] status = DOWNLOADING ->
            [text |-> "Downloading audio from video...", detail |-> ""]
      [] status = TRANSCRIBING ->
            [text |-> "Creating transcript with AI (Whisper/YouTube API)...",
             detail |-> ""]
      [] status = ENHANCING ->
            [text |-> "Enhancing with GPT - generating summaries and Q&As...",
             detail |-> ""]
      [] status = COMPLETED ->
            [text |-> "Processing complete! Your AI training data is ready.",
             detail |-> ""]
      [] status = FAILED ->
            [text |-> "Processing failed: ",
             detail |-> IF error_message \in {NULL, ""} THEN "Unknown error"
                        ELSE error_message]
      [] OTHER -> [text |-> "Processing...", detail |-> ""]

\* The handler: 404 for an unknown id, else the VideoJobStatus of the row.
\* It adds nothing to the session and commits nothing.
get_job_status(j) ==
    IF j \notin JobIds
    THEN [result |-> "404", status |-> NULL,
          progress_message |-> [text |-> "", detail |-> ""],
          error_message |-> NULL, jobs |-> jobs, tasks |-> tasks]
    ELSE [result |-> "ok", status |-> jobs[j].status,
          progress_message |-> ProgressMessage(jobs[j].status,
                                               jobs[j].error_message),
          error_message |-> jobs[j].error_message,
          jobs |-> jobs, tasks |-> tasks]

GetStatus ==
    \E j \in 1..MaxJobs :
        LET o == get_job_status(j)
        IN o.result \in {"404", "ok"} /\ Apply(o)

-----------------------------------------------------------------------------

Next ==
    \/ SubmitVideo
    \/ SubmitBatch
    \/ VideoTask
    \/ RetryFailed
    \/ RetryJob
    \/ RetryAllFailed
    \/ CleanupStuck
    \/ DeleteJob
    \/ GetStatus

Spec == Init /\ [][Next]_vars

\* The catalog under video completions and article tasks together: the two
\* submit endpoints and the two background tasks.
MaxVideoJobsWithArticles == 1

SubmitVideoWithArticles ==
    \E url \in SubmittedUrls, emailOk \in BOOLEAN, infoOk \in BOOLEAN :
        \E existing_job \in FirstJobByUrl(url) :
            LET o == submit_video_for_processing(url, emailOk, infoOk, existing_job)
            IN Len(o.jobs) <= MaxVideoJobsWithArticles /\ Apply(o)

NextArticles ==
    \/ SubmitVideoWithArticles
    \/ VideoTask
    \/ SubmitArticle
    \/ ArticleTask
    \/ SeedDirectory
    \/ DeleteJob

SpecArticles == Init /\ [][NextArticles]_vars

-----------------------------------------------------------------------------
(* The operator's script cleanup_stuck_jobs.py, run against the database   *)
(* of the application.                                                     *)

\* Error messages of the pipeline that can carry the text "403 Forbidden"
\* (get_video_info and download_audio write it when the platform blocks).
CanMention403 == {"extraction_error", "download_error"}

\* error_message || " [Auto-marked: YouTube blocking, no retry]"
AutoMarked(msg) ==
    CASE msg = "extraction_error" -> "extraction_error [Auto-marked]"
      [] msg = "download_error" -> "download_error [Auto-marked]"
      [] OTHER -> msg

\* The first UPDATE (lines 25-46) on one row: old says whether created_at is
\* more than three days back.  completed_at is not in the SET list.
ResetStuckDownload(job, old) ==
    IF job.status = DOWNLOADING /\ old
    THEN [job EXCEPT !.status = FAILED,
                     !.error_message = "Job cleanup",
                     !.retry_count = IF @ = NULL THEN "0" ELSE @]
    ELSE job

\* The second UPDATE (lines 58-65) on one row: forbidden says whether the
\* error message of the row contains "403 Forbidden".
MarkBlocked(job, forbidden) ==
    IF job.status = FAILED /\ forbidden /\ job.error_message \in CanMention403
          /\ (job.retry_count = NULL \/ job.retry_count # "999")
    THEN [job EXCEPT !.retry_count = "999", !.error_message = AutoMarked(@)]
    ELSE job

\* The third and fourth UPDATE (lines 72-93) on one row: a failed
\* transcription or conversion whose retry_count is NULL or empty.
MarkReadyForRetry(job) ==
    IF job.status = FAILED /\ job.error_message = "transcription_error"
          /\ job.retry_count \in {NULL, ""}
    THEN [job EXCEPT !.retry_count = "0"]
    ELSE job

\* One run of the script, committed at line 99.
CleanupScript ==
    \E old \in SUBSET JobIds, forbidden \in SUBSET JobIds :
        /\ jobs' = [j \in JobIds |->
                       MarkReadyForRetry(
                           MarkBlocked(ResetStuckDownload(jobs[j], j \in old),
                                       j \in forbidden))]
        /\ UNCHANGED <<entries, tasks, now, temp_dirs, call>>

NextScript ==
    \/ SubmitVideo
    \/ VideoTask
    \/ RetryFailed
    \/ CleanupScript

SpecScript == Init /\ [][NextScript]_vars

-----------------------------------------------------------------------------
(* Service functions called on their own: the variable call holds one      *)
(* call, its arguments and, once it has returned, its result.              *)

\* URLs handed to the resolver: the submitted ones, a YouTube watch URL
\* whose video id has not 11 characters, a Rumble URL with a two-character
\* id, and the empty string.
ResolverUrls == SubmittedUrls \cup {"yt_bad_id", "rm_bad_id", ""}

Tiers == {"basic", "detailed", "bulk", "other"}

\* Lengths of the lists in the answer of the completion service.
ResponseLengths == {0, 3, 5, 6, 8, 10, 11}

Items(n) == [i \in 1..n |-> i]

\* value[:k]
Slice(value, k) == SubSeq(value, 1, Min(Len(value), k))

\* The value under one key of the parsed answer: a list, no such key, or a
\* value that cannot be sliced (null, a number, an object).
Absent == [kind |-> "absent", items |-> <<>>]
FieldValues ==
    {Absent, [kind |-> "unsliceable", items |-> <<>>]}
        \cup {[kind |-> "list", items |-> Items(n)] : n \in ResponseLengths}

\* What the completion call yields: it raises, or its text is not JSON, or
\* it is JSON but not an object, or it is an object with the three keys.
ServiceResponses ==
    {[kind |-> k, key_points |-> Absent, qa_pairs |-> Absent, topics |-> Absent] :
        k \in {"raises", "unparsable", "not_object"}}
        \cup {[kind |-> "object", key_points |-> a, qa_pairs |-> b, topics |-> c] :
                a \in FieldValues, b \in FieldValues, c \in FieldValues}

\* enhance_with_ai with the topics taken as the service sent them.
enhance_with_ai_topics_unsliced(tier, response) ==
    LET Get(f) == IF f.kind = "absent" THEN <<>> ELSE f.items
    IN  IF response.kind # "object"
        THEN [success |-> FALSE, key_points |-> Items(3), qa_pairs |-> Items(1),
              topics |-> Items(3), processing_model |-> "fallback"]
        ELSE [success |-> TRUE,
              key_points |-> Slice(Get(response.key_points), 5),
              qa_pairs |-> Slice(Get(response.qa_pairs), 5),
              topics |-> Get(response.topics),
              processing_model |-> "gpt-3.5-turbo"]

\* TranscriptionService.enhance_with_ai
enhance_with_ai(tier, response) ==
    LET qa_count == CASE tier = "basic" -> 5
                      [] tier = "detailed" -> 10
                      [] OTHER -> 5
        key_points_count == CASE tier = "basic" -> 5
                              [] tier = "detailed" -> 8
                              [] OTHER -> 5
        \* the except json.JSONDecodeError branch
        enhanced_data ==
            IF response.kind = "unparsable"
            THEN [kind |-> "object",
                  key_points |-> [kind |-> "list", items |-> Items(3)],
                  qa_pairs |-> [kind |-> "list", items |-> Items(1)],
                  topics |-> [kind |-> "list", items |-> Items(3)]]
            ELSE response
        \* enhanced_data.get(key, [])
        Get(f) == IF f.kind = "absent" THEN <<>> ELSE f.items
        \* the completion call raises, .get of a non-object raises, or a
        \* slice of an unsliceable value raises: the outer except
        raises ==
            \/ enhanced_data.kind \in {"raises", "not_object"}
            \/ "unsliceable" \in {enhanced_data.key_points.kind,
                                  enhanced_data.qa_pairs.kind,
                                  enhanced_data.topics.kind}
    IN  IF raises
        THEN [success |-> FALSE, key_points |-> Items(3), qa_pairs |-> Items(1),
              topics |-> Items(3), processing_model |-> "fallback"]
        ELSE [success |-> TRUE,
              key_points |-> Slice(Get(enhanced_data.key_points), key_points_count),
              qa_pairs |-> Slice(Get(enhanced_data.qa_pairs), qa_count),
              topics |-> Slice(Get(enhanced_data.topics), 5),
              processing_model |-> "gpt-3.5-turbo"]

\* Texts handed to infer_category as title, summary or the only topic; ""
\* stands for None, the empty string and the empty list.  "prefix" holds
\* "fix", "category" holds "cat" and "entertainment" holds "ai", none of
\* them as a word of its own.
CategoryTexts ==
    {"", "setup", "debug", "prefix", "prompt", "api", "toolbox",
     "automation", "money", "agent", "ai", "ai agent",
     "entertainment", "review", "news", "tutorial", "cat",
     "category", "random"}

\* The term lists of the ten rules of infer_category.
CategoryTerms(category) ==
    CASE category = "Setup & Onboarding" ->
            {"setup", "install", "onboard", "getting started",
             "configuration"}
      [] category = "Debugging & Fixes" ->
            {"debug", "error", "fix", "troubleshoot", "problem", "issue"}
      [] category = "Prompts & Templates" ->
            {"prompt", "template", "system prompt", "prompt engineering"}
      [] category = "Tooling & Integrations" ->
            {"notion", "api", "mcp", "integration", "tool", "webhook",
             "automation", "workflow", "ai agent", "openclaw"}
      [] category = "Business Use Cases" ->
            {"money", "revenue", "sales", "business", "make $", "profit",
             "roi", "entrepreneur"}
      [] category = "Automation Workflows" ->
            {"automation", "workflow", "agent", "ai",
             "artificial intelligence", "machine learning"}
      [] category = "Reviews & Opinions" ->
            {"review", "opinion", "thoughts on", "reaction",
             "commentary", "analysis"}
      [] category = "News & Updates" ->
            {"news", "update", "announcement", "release", "breaking"}
      [] category = "Educational" ->
            {"tutorial", "how to", "learn", "course", "education",
             "explanation", "guide"}
      [] category = "Entertainment" ->
            {"funny", "entertainment", "meme", "comedy", "fun", "gaming",
             "music", "movie", "cat", "dog", "compilation", "viral",
             "hilarious"}
      [] OTHER -> {}

\* The terms with len(term) <= 3, which _contains_any matches between word
\* boundaries only.
ShortTerms == {"ai", "api", "cat", "dog", "fix", "fun", "mcp", "roi"}

\* The words of a text, for the \b...\b search of a short term.
WordsOf(text) ==
    CASE text = "" -> {}
      [] text = "ai agent" -> {"ai", "agent"}
      [] OTHER -> {text}

\* The longer terms that are substrings of a text (term in t).
LongTermsIn(text) ==
    CASE text = "setup" -> {"setup"}
      [] text = "debug" -> {"debug"}
      [] text = "prompt" -> {"prompt"}
      [] text = "toolbox" -> {"tool"}
      [] text = "automation" -> {"automation"}
      [] text = "money" -> {"money"}
      [] text = "agent" -> {"agent"}
      [] text = "ai agent" -> {"agent", "ai agent"}
      [] text = "entertainment" -> {"entertainment"}
      [] text = "review" -> {"review"}
      [] text = "news" -> {"news"}
      [] text = "tutorial" -> {"tutorial"}
      [] OTHER -> {}

\* The longer terms that " ".join brings about between two neighbouring
\* texts without either holding them.
LongTermsAcross(a, b) ==
    IF a = "ai" /\ b = "agent" THEN {"ai agent"} ELSE {}

\* _contains_any on the corpus " ".join([title, summary, " ".join(topics)])
contains_any(corpus, terms) ==
    \E term \in terms :
        IF term \in ShortTerms
        THEN \E i \in 1..3 : term \in WordsOf(corpus[i])
        ELSE \/ \E i \in 1..3 : term \in LongTermsIn(corpus[i])
             \/ \E i \in 1..2 : term \in LongTermsAcross(corpus[i], corpus[i + 1])

\* infer_category with the rule of Automation Workflows tried where the
\* rule of Tooling & Integrations stands, and the other way round.
infer_category_automation_first(title, summary, topics) ==
    LET corpus == <<title, summary, topics>> IN
        IF contains_any(corpus, CategoryTerms("Setup & Onboarding"))
        THEN "Setup & Onboarding" ELSE
        IF contains_any(corpus, CategoryTerms("Debugging & Fixes"))
        THEN "Debugging & Fixes" ELSE
        IF contains_any(corpus, CategoryTerms("Prompts & Templates"))
        THEN "Prompts & Templates" ELSE
        IF contains_any(corpus, CategoryTerms("Automation Workflows"))
        THEN "Automation Workflows" ELSE
        IF contains_any(corpus, CategoryTerms("Business Use Cases"))
        THEN "Business Use Cases" ELSE
        IF contains_any(corpus, CategoryTerms("Tooling & Integrations"))
        THEN "Tooling & Integrations" ELSE
        IF contains_any(corpus, CategoryTerms("Reviews & Opinions"))
        THEN "Reviews & Opinions" ELSE
        IF contains_any(corpus, CategoryTerms("News & Updates"))
        THEN "News & Updates" ELSE
        IF contains_any(corpus, CategoryTerms("Educational"))
        THEN "Educational" ELSE
        IF contains_any(corpus, CategoryTerms("Entertainment"))
        THEN "Entertainment" ELSE
        "General Content"

\* directory_mapper.infer_category
infer_category(title, summary, topics) ==
    LET corpus == <<title, summary, topics>> IN
        IF contains_any(corpus, CategoryTerms("Setup & Onboarding"))
        THEN "Setup & Onboarding" ELSE
        IF contains_any(corpus, CategoryTerms("Debugging & Fixes"))
        THEN "Debugging & Fixes" ELSE
        IF contains_any(corpus, CategoryTerms("Prompts & Templates"))
        THEN "Prompts & Templates" ELSE
        IF contains_any(corpus, CategoryTerms("Tooling & Integrations"))
        THEN "Tooling & Integrations" ELSE
        IF contains_any(corpus, CategoryTerms("Business Use Cases"))
        THEN "Business Use Cases" ELSE
        IF contains_any(corpus, CategoryTerms("Automation Workflows"))
        THEN "Automation Workflows" ELSE
        IF contains_any(corpus, CategoryTerms("Reviews & Opinions"))
        THEN "Reviews & Opinions" ELSE
        IF contains_any(corpus, CategoryTerms("News & Updates"))
        THEN "News & Updates" ELSE
        IF contains_any(corpus, CategoryTerms("Educational"))
        THEN "Educational" ELSE
        IF contains_any(corpus, CategoryTerms("Entertainment"))
        THEN "Entertainment" ELSE
        "General Content"

\* What yt-dlp left in temp/job_<id>: no file, or a file with its
\* extension, its size in bytes and what its first 512 bytes hold.  25 MB
\* are 26214400 bytes.
NoFile == [exists |-> FALSE, ext |-> "", size |-> 0, header |-> ""]
DownloadedFiles ==
    {NoFile} \cup
    [exists : {TRUE},
     ext : {".m4a", ".mp3", ".flac", ".aac", ".html", ".mhtml"},
     size : {0, 512, 1024, 26214400, 26214401},
     header : {"audio", "<html", "<!doctype"}]

FileFailure(error) == [success |-> FALSE, error |-> error, whisper_called |-> FALSE]

\* The checks of download_audio on the file (youtube_service.py 312-340).
download_audio(file) ==
    IF ~file.exists THEN FileFailure("Audio file was not created successfully")
    ELSE IF file.ext \in {".mhtml", ".html"} THEN FileFailure("youtube_blocked")
    ELSE IF file.size < 1024 THEN FileFailure("invalid_download")
    ELSE IF file.ext \notin {".m4a", ".webm", ".mp3", ".mp4", ".wav", ".ogg"}
    THEN FileFailure("invalid_format")
    ELSE [success |-> TRUE, error |-> "none", whisper_called |-> FALSE]

\* transcribe_audio_with_whisper without the test of the 25 MB limit.
transcribe_audio_with_whisper_any_size(file, convertOk, whisperOk) ==
    IF ~file.exists THEN FileFailure("Audio file does not exist")
    ELSE IF file.size = 0 THEN FileFailure("Audio file is empty")
    ELSE IF file.header \in {"<html", "<!doctype"}
    THEN FileFailure("Downloaded file is HTML, not audio")
    ELSE IF file.ext \notin {".flac", ".m4a", ".mp3", ".mp4", ".mpeg", ".mpga",
                             ".oga", ".ogg", ".wav", ".webm"} /\ ~convertOk
    THEN FileFailure("Audio conversion failed")
    ELSE IF ~whisperOk
    THEN [success |-> FALSE, error |-> "Whisper transcription failed",
          whisper_called |-> TRUE]
    ELSE [success |-> TRUE, error |-> "none", whisper_called |-> TRUE]

\* TranscriptionService.transcribe_audio_with_whisper: convertOk says
\* whether convert_audio_for_whisper succeeds, whisperOk whether the
\* Whisper API answers without raising.
transcribe_audio_with_whisper(file, convertOk, whisperOk) ==
    IF ~file.exists THEN FileFailure("Audio file does not exist")
    ELSE IF file.size = 0 THEN FileFailure("Audio file is empty")
    ELSE IF file.size > 25 * 1024 * 1024
    THEN FileFailure("Audio file too large (>25MB)")
    ELSE IF file.header \in {"<html", "<!doctype"}
    THEN FileFailure("Downloaded file is HTML, not audio")
    ELSE IF file.ext \notin {".flac", ".m4a", ".mp3", ".mp4", ".mpeg", ".mpga",
                             ".oga", ".ogg", ".wav", ".webm"} /\ ~convertOk
    THEN FileFailure("Audio conversion failed")
    ELSE IF ~whisperOk
    THEN [success |-> FALSE, error |-> "Whisper transcription failed",
          whisper_called |-> TRUE]
    ELSE [success |-> TRUE, error |-> "none", whisper_called |-> TRUE]

\* The strategy of process_video_background for a URL that is not
\* YouTube's (process.py 534-559): download_audio, and when it succeeded
\* transcribe_audio_with_whisper on its file; the first error is the
\* strategy's.
download_audio_and_transcribe(file, convertOk, whisperOk) ==
    IF ~download_audio(file).success THEN download_audio(file)
    ELSE transcribe_audio_with_whisper(file, convertOk, whisperOk)

NoResult == [none |-> TRUE]

\* The values of max_retries: the callers pass 2 (get_video_info) and 3
\* (download_audio, and the default); 1 is the shortest loop that calls.
MaxRetriesValues == {1, 2, 3}

PendingCalls ==
    {[fn |-> "determine_processing_method", args |-> [url |-> u],
      returned |-> FALSE, result |-> NoResult] : u \in ResolverUrls}
        \cup {[fn |-> "enhance_with_ai", args |-> [tier |-> t, response |-> r],
               returned |-> FALSE, result |-> NoResult] :
                t \in Tiers, r \in ServiceResponses}
        \cup {[fn |-> "infer_category",
               args |-> [title |-> a, summary |-> b, topics |-> c],
               returned |-> FALSE, result |-> NoResult] :
                a \in CategoryTexts, b \in CategoryTexts, c \in CategoryTexts}
        \cup {[fn |-> "download_audio_and_transcribe", args |-> [file |-> f],
               returned |-> FALSE, result |-> NoResult] : f \in DownloadedFiles}
        \cup {[fn |-> "transcribe_audio_with_whisper", args |-> [file |-> f],
               returned |-> FALSE, result |-> NoResult] : f \in DownloadedFiles}
        \cup {[fn |-> "_retry_with_backoff", args |-> [max_retries |-> n],
               history |-> <<>>, returned |-> FALSE, result |-> NoResult] :
                n \in MaxRetriesValues}

InitFunctions ==
    /\ jobs = <<>>
    /\ entries = <<>>
    /\ tasks = <<>>
    /\ now = 1
    /\ temp_dirs = {}
    /\ call \in PendingCalls

\* One call of the resolver; it may be called again with the same URL.
ResolveMethod ==
    /\ call.fn = "determine_processing_method"
    /\ call' = [call EXCEPT !.returned = TRUE,
                            !.result = [method |->
                                determine_processing_method(call.args.url)]]
    /\ UNCHANGED <<jobs, entries, tasks, now, temp_dirs>>

\* One call of the enrichment.
EnhanceWithAi ==
    /\ call.fn = "enhance_with_ai"
    /\ ~call.returned
    /\ call' = [call EXCEPT !.returned = TRUE,
                            !.result = enhance_with_ai(call.args.tier,
                                                       call.args.response)]
    /\ UNCHANGED <<jobs, entries, tasks, now, temp_dirs>>

\* One call of the category inference; it may be called again with the
\* same texts.
InferCategory ==
    /\ call.fn = "infer_category"
    /\ call' = [call EXCEPT !.returned = TRUE,
                            !.result = [category |->
                                infer_category(call.args.title,
                                               call.args.summary,
                                               call.args.topics)]]
    /\ UNCHANGED <<jobs, entries, tasks, now, temp_dirs>>

\* retry_with_backoff with the last attempt recognised one iteration late:
\* range(max_retries + 1) and attempt == max_retries.
retry_with_backoff_one_more ==
    /\ call.fn = "_retry_with_backoff"
    /\ ~call.returned
    /\ LET attempt == Len(call.history)
           done(kind) == [call EXCEPT !.history = Append(@, kind),
                                      !.returned = TRUE,
                                      !.result = [kind |-> kind, of |-> attempt + 1]]
       IN IF attempt >= call.args.max_retries + 1
          THEN call' = [call EXCEPT !.returned = TRUE,
                                    !.result = [kind |-> "none", of |-> 0]]
          ELSE \E raises \in BOOLEAN :
                  IF ~raises THEN call' = done("ok")
                  ELSE IF attempt = call.args.max_retries
                  THEN call' = done("raise")
                  ELSE call' = [call EXCEPT !.history = Append(@, "raise")]
    /\ UNCHANGED <<jobs, entries, tasks, now, temp_dirs>>

\* YouTubeService._retry_with_backoff, one iteration of its loop per step:
\* func is called and returns or raises; its result is returned at once,
\* its exception is raised on the last attempt and followed by a sleep and
\* the next iteration otherwise.  history lists the calls of func so far,
\* so attempt is its length; the result names the call it came from.  A
\* loop that is exhausted without a call returns None.
retry_with_backoff ==
    /\ call.fn = "_retry_with_backoff"
    /\ ~call.returned
    /\ LET attempt == Len(call.history)
           done(kind) == [call EXCEPT !.history = Append(@, kind),
                                      !.returned = TRUE,
                                      !.result = [kind |-> kind, of |-> attempt + 1]]
       IN IF attempt >= call.args.max_retries
          THEN call' = [call EXCEPT !.returned = TRUE,
                                    !.result = [kind |-> "none", of |-> 0]]
          ELSE \E raises \in BOOLEAN :
                  IF ~raises THEN call' = done("ok")
                  ELSE IF attempt = call.args.max_retries - 1
                  THEN call' = done("raise")
                  ELSE call' = [call EXCEPT !.history = Append(@, "raise")]
    /\ UNCHANGED <<jobs, entries, tasks, now, temp_dirs>>

\* One run of the download and transcribe strategy on a file.
DownloadAudioAndTranscribe ==
    /\ call.fn = "download_audio_and_transcribe"
    /\ ~call.returned
    /\ \E convertOk \in BOOLEAN, whisperOk \in BOOLEAN :
          call' = [call EXCEPT !.returned = TRUE,
                               !.result = download_audio_and_transcribe(
                                              call.args.file, convertOk, whisperOk)]
    /\ UNCHANGED <<jobs, entries, tasks, now, temp_dirs>>

\* One call of transcribe_audio_with_whisper on a file, whatever it is.
TranscribeAudioWithWhisper ==
    /\ call.fn = "transcribe_audio_with_whisper"
    /\ ~call.returned
    /\ \E convertOk \in BOOLEAN, whisperOk \in BOOLEAN :
          call' = [call EXCEPT !.returned = TRUE,
                               !.result = transcribe_audio_with_whisper(
                                              call.args.file, convertOk, whisperOk)]
    /\ UNCHANGED <<jobs, entries, tasks, now, temp_dirs>>

NextFunctions ==
    \/ ResolveMethod
    \/ EnhanceWithAi
    \/ InferCategory
    \/ retry_with_backoff
    \/ DownloadAudioAndTranscribe
    \/ TranscribeAudioWithWhisper

SpecFunctions == InitFunctions /\ [][NextFunctions]_vars

\* The thread that runs the loop keeps running: func returns or raises and
\* the sleep between two attempts ends.
SpecFunctionsFair == SpecFunctions /\ WF_vars(retry_with_backoff)

\* The only method with the order download and transcribe, then caption
\* API, is whisper_primary.  No task ever runs it, and for every URL that
\* resolves to it process_whisper_first fails at get_video_info, before
\* either strategy is tried.
FallbackOrderUnreachable ==
    /\ \A t \in TaskIds : tasks[t].pc # "process_whisper_first"
    /\ \A j \in JobIds : determine_processing_method(jobs[j].url) # "whisper_primary"
    /\ \A url \in SubmittedUrls, e \in BOOLEAN, a \in BOOLEAN, w \in BOOLEAN, c \in BOOLEAN :
          determine_processing_method(url) = "whisper_primary"
              => ~process_whisper_first(url, e, a, w, c).success

-----------------------------------------------------------------------------
(* Properties.                                                             *)

ActiveJobsWithUrl(url) == {j \in JobsWithUrl(url) : jobs[j].status \in ActiveOrCompleted}

\* C1 (idempotent submission): in every state where a job for a URL is
\* Pending, Downloading, Transcribing, Enhancing or Completed, a further submit
\* of that URL, whichever row its first query returns, creates no job and no
\* task and answers with the id of such a job.
C1_IdempotentSubmission ==
    \A url \in VideoUrls :
        ActiveJobsWithUrl(url) # {} =>
            \A existing_job \in FirstJobByUrl(url) :
                LET o == submit_video_for_processing(url, TRUE, TRUE, existing_job)
                IN /\ o.jobs = jobs
                   /\ o.tasks = tasks
                   /\ o.job_id \in ActiveJobsWithUrl(url)

\* C2 (one active job per source): in every reachable state at most one job
\* per source URL is in a status other than Failed.
C2_OneActiveJobPerSource ==
    \A url \in VideoUrls :
        Cardinality({j \in JobsWithUrl(url) : jobs[j].status # FAILED}) <= 1

\* C3 (catalog short-circuit): in every state where a catalog entry exists for
\* a URL, a submit of that URL creates no job and queues no task, through the
\* single endpoint and through the batch endpoint alike.
C3_CatalogShortCircuit ==
    \A url \in VideoUrls :
        EntriesByEitherUrl(url) # {} =>
            /\ \A existing_job \in FirstJobByUrl(url), infoOk \in BOOLEAN :
                  LET o == submit_video_for_processing(url, TRUE, infoOk, existing_job)
                  IN o.jobs = jobs /\ o.tasks = tasks
            /\ \A urls \in BatchInputs :
                  \A pick \in BatchPicks(urls) : \A info \in BatchInfos(urls, pick) :
                      LET o == submit_batch_videos_for_processing(urls, TRUE, pick, info)
                      IN /\ \A j \in (Len(jobs) + 1)..Len(o.jobs) : o.jobs[j].url # url
                         /\ \A t \in (Len(tasks) + 1)..Len(o.tasks) : o.tasks[t].url # url

\* Position of a status in Pending < Downloading < Transcribing < Enhancing
\* < Completed.
StatusRank(st) ==
    CASE st = PENDING -> 0 [] st = DOWNLOADING -> 1 [] st = TRANSCRIBING -> 2
      [] st = ENHANCING -> 3 [] OTHER -> 4

\* A move of the state graph: forward in the order, or to Failed from a
\* status that is not terminal; staying put is no move.
ForwardOrSame(a, b) ==
    \/ a = b
    \/ a # FAILED /\ b # FAILED /\ StatusRank(a) < StatusRank(b)
    \/ b = FAILED /\ a \notin {COMPLETED, FAILED}

\* A step of one of the recovery endpoints.
RecoveryStep == RetryFailed \/ RetryJob \/ RetryAllFailed \/ CleanupStuck

\* C4 (monotonic status): in every step, the status of every job either
\* follows the state graph or is set to Pending by a recovery endpoint.
C4_MonotonicStatus ==
    [][\A j \in JobIds :
          \/ ForwardOrSame(jobs[j].status, jobs'[j].status)
          \/ RecoveryStep /\ jobs'[j].status = PENDING]_vars

\* A job a recovery endpoint has reset: Pending again, with the completed_at
\* its failure left behind.
C4_Witness ==
    \E j \in JobIds : jobs[j].status = PENDING /\ jobs[j].completed_at # NULL

\* C5 (single terminal outcome): in every step, a Completed job does not
\* become Failed, and a Failed job stays Failed unless a recovery endpoint
\* sets it to Pending; so Failed is never followed by Completed without the
\* reset in between.
C5_SingleTerminalOutcome ==
    [][\A j \in JobIds :
          /\ jobs[j].status = COMPLETED => jobs'[j].status # FAILED
          /\ jobs[j].status = FAILED =>
                \/ jobs'[j].status = FAILED
                \/ RecoveryStep /\ jobs'[j].status = PENDING]_vars

\* A job has completed while another, failed and reset by a recovery
\* endpoint, is Pending again and a third outcome, Failed, is on record.
C5_Witness ==
    \E j \in JobIds, k \in JobIds, f \in JobIds :
        /\ jobs[j].status = COMPLETED
        /\ jobs[k].status = PENDING /\ jobs[k].completed_at # NULL
        /\ jobs[f].status = FAILED

\* The number a retry_count text stands for (NULL counts as 0).
RetryCountValue(rc) ==
    CASE rc = "1" -> 1 [] rc = "2" -> 2 [] rc = "3" -> 3 [] OTHER -> 0

\* C6 (retry clears stale state): in every state, the retry endpoint called
\* for a Failed job that holds a transcript or an enrichment leaves the job
\* Pending, without error message, transcript or enrichment, and with a
\* retry_count one greater than before.
C6_RetryClearsStaleState ==
    \A j \in FailedJobs :
        (jobs[j].transcript # NULL \/ jobs[j].ai_enhanced # NULL) =>
            LET after == retry_job(j).jobs[j]
            IN /\ after.status = PENDING
               /\ after.error_message = NULL
               /\ after.transcript = NULL
               /\ after.ai_enhanced = NULL
               /\ after.retry_count = DigitText(RetryCountValue(jobs[j].retry_count) + 1)

\* C7 (recovery re-enqueues): every step that sets an existing job back to
\* Pending also queues a pipeline task for that job.
C7_RecoveryReenqueues ==
    [][\A j \in JobIds :
          (jobs[j].status # PENDING /\ jobs'[j].status = PENDING) =>
              \E t \in (Len(tasks) + 1)..Len(tasks') :
                  tasks'[t].kind = "video" /\ tasks'[t].job = j]_vars

\* The pipeline tasks of job j that are queued or running.
LiveTasks(j) ==
    {t \in TaskIds : tasks[t].kind = "video" /\ tasks[t].job = j /\ tasks[t].pc # "done"}

\* C8 (no double-processing): in every reachable state at most one pipeline
\* task of a job is queued or running.
C8_NoDoubleProcessing ==
    \A j \in JobIds : Cardinality(LiveTasks(j)) <= 1

\* A retry is accepted by the status check of retry_job while the task of
\* the job is between its lookup and its commit, and the call ends in the
\* TypeError of the increment.
C8_Witness ==
    \E j \in JobIds :
        /\ jobs[j].status = ENHANCING
        /\ \E t \in LiveTasks(j) : tasks[t].pc = "commit"
        /\ retry_job(j).result = "500_TypeError"

\* The payload the task at its commit publishes.
PublishPayload(t) ==
    IF tasks[t].kind = "video"
    THEN EntryFromJob(tasks[t].job, tasks[t].url, tasks[t].enhanced, tasks[t].ts)
    ELSE EntryFromArticle(tasks[t].url, now)

\* The task's upsert ran after an entry for its URL was published: its
\* lookup returned the entry, or (the video lookup reads video_url only) an
\* article entry for the URL was committed before the lookup.
PublishedBefore(t) ==
    \/ tasks[t].existing # 0
    \/ /\ tasks[t].kind = "video"
       /\ \E e \in EntriesBySourceUrl(tasks[t].url) :
             entries[e].content_type = "article" /\ entries[e].created_at < tasks[t].ts

\* The commit step of task t publishes (a video job ends Completed).
Publishes(t) ==
    /\ tasks[t].pc = "commit" /\ tasks'[t].pc = "done"
    /\ tasks[t].kind = "video" => jobs'[tasks[t].job].status = COMPLETED

\* C9 (publish convergence): every publish for a URL that follows an earlier
\* publish for the same URL leaves exactly one entry for the URL, with the
\* created_at of the earlier publish and every field the later publish
\* computes as it computed it.
C9_PublishConvergence ==
    [][\A t \in TaskIds :
          (Publishes(t) /\ PublishedBefore(t)) =>
              \E e \in EntryIds :
                  /\ {x \in 1..Len(entries') : entries'[x].source_url = tasks[t].url} = {e}
                  /\ entries'[e].created_at = entries[e].created_at
                  /\ LET p == PublishPayload(t)
                         n == entries'[e]
                     IN /\ n.source_url = p.source_url
                        /\ n.content_type = p.content_type
                        /\ n.summary = p.summary
                        /\ n.signal_score = p.signal_score
                        /\ n.updated_at = p.updated_at
                        /\ tasks[t].kind = "video" =>
                              /\ n.source_job_id = p.source_job_id
                              /\ n.video_url = p.video_url]_vars

\* C10 (catalog uniqueness): in every reachable state there is at most one
\* catalog entry per source URL.
C10_CatalogUniqueness ==
    \A url \in ArticleUrls \cup VideoUrls : Cardinality(EntriesBySourceUrl(url)) <= 1

\* C11 (completed implies published): in every reachable state a job that is
\* Completed has a catalog entry for its URL; a job whose publish failed is
\* Failed, not Completed.
C11_CompletedImpliesPublished ==
    \A j \in JobIds :
        jobs[j].status = COMPLETED => EntriesBySourceUrl(jobs[j].url) # {}

\* The publish of one job failed on the unique video_url (its lookup found no
\* entry, its transcript is stored, its enrichment was rolled back) after
\* another job for the URL had completed and published.
C11_Witness ==
    \E j \in JobIds, k \in JobIds :
        /\ jobs[j].url = jobs[k].url
        /\ jobs[j].status = COMPLETED
        /\ jobs[k].status = FAILED
        /\ jobs[k].error_message = "Processing error"
        /\ jobs[k].ai_enhanced = NULL
        /\ \E e \in EntriesBySourceUrl(jobs[j].url) : entries[e].source_job_id = j

\* C12 (catalog entries are backed by a completed job): in every reachable
\* state each catalog entry has a Completed job for the same source URL.
C12_EntriesBackedByCompletedJob ==
    \A e \in EntryIds :
        \E j \in JobIds :
            /\ jobs[j].status = COMPLETED
            /\ jobs[j].url \in {entries[e].source_url, entries[e].video_url}

\* The places of a task where an extraction strategy is about to answer.
ExtractionPcs == {"youtube_transcript", "download_audio", "transcribe"}

\* The error of the strategy that answers at a place.
StrategyError(pc) ==
    CASE pc = "youtube_transcript" -> "extraction_error"
      [] pc = "download_audio" -> "download_error"
      [] pc = "transcribe" -> "transcription_error"

\* C14 (all strategies exhausted): in every step in which an extraction
\* strategy of a job answers, the task ends there exactly when the job is
\* persisted as Failed, and then the job's error message is the non-empty
\* error of that last attempted strategy, its enrichment is untouched and
\* the catalog is unchanged: no enrichment or publish step runs.
C14_AllStrategiesExhausted ==
    [][\A t \in TaskIds :
          LET j == tasks[t].job IN
          (tasks[t].kind = "video" /\ tasks[t].pc \in ExtractionPcs
               /\ tasks'[t].pc # tasks[t].pc)
          => /\ (tasks'[t].pc = "done") <=> (jobs'[j].status = FAILED)
             /\ tasks'[t].pc = "done" =>
                   /\ jobs'[j].error_message = StrategyError(tasks[t].pc)
                   /\ jobs'[j].error_message # NULL
                   /\ jobs'[j].ai_enhanced = jobs[j].ai_enhanced
                   /\ entries' = entries]_vars

\* A job whose download succeeded and whose transcription, the last
\* strategy step, failed: it is Failed with that error, its task is over,
\* it has no enrichment and the catalog has no entry for its URL.
C14_Witness ==
    \E t \in TaskIds :
        /\ tasks[t].kind = "video" /\ tasks[t].pc = "done"
        /\ tasks[t].job \in JobIds
        /\ jobs[tasks[t].job].status = FAILED
        /\ jobs[tasks[t].job].error_message = "transcription_error"
        /\ jobs[tasks[t].job].ai_enhanced = NULL
        /\ EntriesByEitherUrl(jobs[tasks[t].job].url) = {}

\* C15 (enrichment failure is non-fatal): in every step in which the
\* enrichment of a job whose extraction succeeded answers, whatever the
\* answer (parsable JSON, unparsable output, or an exception), the job is
\* not marked Failed and the task goes on to publish with the answer's
\* payload, the fixed fallback in the latter two cases.
C15_EnrichmentNonFatal ==
    [][\A t \in TaskIds :
          (tasks[t].kind = "video" /\ tasks[t].pc = "enhance_with_ai"
               /\ tasks'[t].pc # tasks[t].pc)
          => /\ jobs'[tasks[t].job].status # FAILED
             /\ tasks'[t].pc = "commit"
             /\ tasks'[t].enhanced \in EnhanceOutcomes]_vars

\* C16 (stuck detector predicate): in every state and for every age of
\* every job, get_stuck_jobs lists a job if and only if it is Downloading
\* and more than 30 minutes old, or Transcribing or Enhancing and more than
\* 15 minutes old: a Downloading job of 29 minutes is not listed, one of 31
\* minutes is, and no Pending, Completed or Failed job is.
C16_StuckDetectorPredicate ==
    \A age \in [JobIds -> StuckAges] :
        get_stuck_jobs(age).stuck_jobs =
            {j \in JobIds :
                \/ jobs[j].status = DOWNLOADING /\ age[j] > 30
                \/ jobs[j].status \in {TRANSCRIBING, ENHANCING} /\ age[j] > 15}

\* C17 (stuck cleanup applies the recovery action): in every state and for
\* every age of every job, cleanup_stuck_jobs leaves each stuck job Pending,
\* without error message, transcript or enrichment, and with a retry_count
\* one greater than before.
C17_CleanupAppliesRecovery ==
    \A age \in [JobIds -> StuckAges] :
        \A j \in StuckJobs(age) :
            LET after == cleanup_stuck_jobs(age).jobs[j]
            IN /\ after.status = PENDING
               /\ after.error_message = NULL
               /\ after.transcript = NULL
               /\ after.ai_enhanced = NULL
               /\ after.retry_count = DigitText(RetryCountValue(jobs[j].retry_count) + 1)

\* C18 (bulk retry eligibility): in every state and for every max_retries,
\* retry_all_failed_jobs resets exactly the Failed jobs whose retry_count is
\* below max_retries (Pending, retry_count one greater, so never above
\* max_retries) and leaves every other job as it was.
C18_BulkRetryEligibility ==
    \A max_retries \in {1, 3} :
        \A j \in JobIds :
            LET after == retry_all_failed_jobs(max_retries).jobs[j]
                count == RetryCountValue(jobs[j].retry_count)
            IN IF jobs[j].status = FAILED /\ count < max_retries
               THEN /\ after.status = PENDING
                    /\ after.retry_count = DigitText(count + 1)
                    /\ count + 1 <= max_retries
               ELSE after = jobs[j]

\* C19 (retry_count counts every requeue): in every step, a job that is set
\* back to Pending from another status has its retry_count raised by exactly
\* one, and the retry_count of every other job is unchanged.
C19_RetryCountCountsRequeues ==
    [][\A j \in JobIds :
          IF jobs[j].status # PENDING /\ jobs'[j].status = PENDING
          THEN RetryCountValue(jobs'[j].retry_count)
                   = RetryCountValue(jobs[j].retry_count) + 1
          ELSE jobs'[j].retry_count = jobs[j].retry_count]_vars

\* What C20 asks of the response of a bulk handler that selected the jobs
\* `selected`: the call answers, with one detail per selected job and counts
\* that add up, and a job is reset exactly when its detail reports success.
IsolatedBulkResult(o, selected) ==
    /\ o.result = "ok"
    /\ DOMAIN o.bulk.details = selected
    /\ o.bulk.total_attempted = o.bulk.successful_retries + o.bulk.failed_retries
    /\ o.bulk.total_attempted = Cardinality(selected)
    /\ \A j \in selected : o.bulk.details[j].success => o.jobs[j].status = PENDING

\* C20 (bulk recovery isolation): in every state in which the bulk retry or
\* the stuck cleanup selects at least one job, the call does not fail as a
\* whole: failures are reported per job, the result has one detail for each
\* selected job, and total_attempted = successful_retries + failed_retries.
C20_BulkRecoveryIsolation ==
    /\ \A max_retries \in {1, 3} :
          RetryCandidates(max_retries) # {} =>
              IsolatedBulkResult(retry_all_failed_jobs(max_retries),
                                 RetryCandidates(max_retries))
    /\ \A age \in [JobIds -> StuckAges] :
          StuckJobs(age) # {} =>
              IsolatedBulkResult(cleanup_stuck_jobs(age), StuckJobs(age))

C22_ValidationRejects ==
    \A url \in SubmittedUrls, emailOk \in BOOLEAN, infoOk \in BOOLEAN :
        \A existing_job \in FirstJobByUrl(url) :
            LET o == submit_video_for_processing(url, emailOk, infoOk, existing_job)
            IN (~validate_video_url(url).ok \/ ~emailOk) =>
                   /\ o.result \in {"400_invalid_url", "400_invalid_email"}
                   /\ o.jobs = jobs
                   /\ o.tasks = tasks

\* Jobs, tasks and a catalog entry exist, and a submission with the rejected
\* URL and one with an invalid email for a stored URL are both refused.
C22_Witness ==
    /\ JobIds # {} /\ TaskIds # {} /\ EntryIds # {}
    /\ submit_video_for_processing("bad", TRUE, TRUE, 0).result = "400_invalid_url"
    /\ \E j \in JobIds :
          submit_video_for_processing(jobs[j].url, FALSE, TRUE, j).result
              = "400_invalid_email"

\* What C23 asks of the job table a recovery handler leaves: the same ids,
\* each with the URL it had.
SameJobIdentities(newJobs) ==
    /\ DOMAIN newJobs = JobIds
    /\ \A j \in JobIds : newJobs[j].url = jobs[j].url

\* C23 (recovery preserves identity): in every state, the single retry, both
\* bulk retries and the stuck cleanup, whatever their arguments, leave a job
\* table with the same job ids and the same URL for each id.
C23_RecoveryPreservesIdentity ==
    /\ \A j \in 1..MaxJobs : SameJobIdentities(retry_job(j).jobs)
    /\ \A limit \in 1..MaxJobs : SameJobIdentities(retry_failed_jobs(limit).jobs)
    /\ \A max_retries \in {1, 3} :
          SameJobIdentities(retry_all_failed_jobs(max_retries).jobs)
    /\ \A age \in [JobIds -> StuckAges] : SameJobIdentities(cleanup_stuck_jobs(age).jobs)

\* A bulk retry has acted: of two jobs for one URL, the first failed, was
\* reset to Pending by the retry and kept its place, its URL and its
\* completed_at; the second was submitted while the first was Failed.
C23_Witness ==
    \E j \in JobIds, k \in JobIds :
        /\ j < k /\ jobs[j].url = jobs[k].url
        /\ jobs[j].status = PENDING /\ jobs[j].completed_at # NULL
        /\ jobs[j].error_message = NULL

\* The entries a step creates or modifies.
ChangedEntries ==
    {e \in 1..Len(entries') : e \notin EntryIds \/ entries'[e] # entries[e]}

C28_DeleteBestEffort ==
    \A j \in 1..MaxJobs :
        LET o == delete_job(j)
        IN IF j \in JobIds
           THEN o.result = "deleted" /\ o.jobs[j].status = "deleted"
           ELSE o.result = "404" /\ o.jobs = jobs /\ o.tasks = tasks

\* C24 (temporary directory cleanup on every path): in every step in which
\* a pipeline task ends, whether its job ends Completed or Failed, the
\* directory temp/job_<id> of the job does not exist afterwards.
C24_TempDirCleanedOnEveryPath ==
    [][\A t \in TaskIds :
          (tasks[t].kind = "video" /\ tasks[t].pc # "done" /\ tasks'[t].pc = "done")
          => tasks[t].job \notin temp_dirs']_vars

\* C25 (terminal field invariant): in every state, a Failed job has
\* completed_at set and a non-empty error message, and a Completed job has
\* completed_at set and both transcript and enrichment present.
C25_TerminalFields ==
    \A j \in JobIds :
        /\ jobs[j].status = FAILED =>
              /\ jobs[j].completed_at # NULL
              /\ jobs[j].error_message \notin {NULL, ""}
        /\ jobs[j].status = COMPLETED =>
              /\ jobs[j].completed_at # NULL
              /\ jobs[j].transcript # NULL
              /\ jobs[j].ai_enhanced # NULL

\* C30 (enrichment output bounds): for every tier and every answer of the
\* service, the result of enhance_with_ai has at most N key points, at most
\* M question-and-answer pairs and at most 5 topics, with (N, M) = (5, 5)
\* for basic, (8, 10) for detailed and (5, 5) for bulk or any other tier.
C30_EnrichmentBounds ==
    (call.fn = "enhance_with_ai" /\ call.returned) =>
        LET tier == call.args.tier
            N == IF tier = "detailed" THEN 8 ELSE 5
            M == IF tier = "detailed" THEN 10 ELSE 5
        IN  /\ Len(call.result.key_points) <= N
            /\ Len(call.result.qa_pairs) <= M
            /\ Len(call.result.topics) <= 5

\* A detailed call whose answer carried 11 of each came back cut to 8 key
\* points, 10 pairs and 5 topics.
C30_Witness ==
    /\ call.fn = "enhance_with_ai" /\ call.returned
    /\ call.args.tier = "detailed"
    /\ call.args.response.kind = "object"
    /\ Len(call.args.response.key_points.items) = 11
    /\ Len(call.args.response.qa_pairs.items) = 11
    /\ Len(call.args.response.topics.items) = 11
    /\ call.result.success
    /\ Len(call.result.key_points) = 8
    /\ Len(call.result.qa_pairs) = 10
    /\ Len(call.result.topics) = 5

C31_StatusQueryPure ==
    /\ \A j \in 1..MaxJobs :
          /\ get_job_status(j).jobs = jobs
          /\ get_job_status(j).tasks = tasks
    /\ \A j \in JobIds, k \in JobIds :
          LET a == get_job_status(j)
              b == get_job_status(k)
          IN  /\ a.result = "ok"
              /\ a.progress_message.text # "Processing..."
              /\ (jobs[j].status = jobs[k].status
                    /\ (jobs[j].status = FAILED
                          => jobs[j].error_message = jobs[k].error_message))
                  => a.progress_message = b.progress_message
              /\ jobs[j].status # jobs[k].status
                  => a.progress_message.text # b.progress_message.text
              /\ jobs[j].status # FAILED => a.progress_message.detail = ""

\* Two failed jobs with the same error and a completed one are queried.
C31_Witness ==
    \E j \in JobIds, k \in JobIds, c \in JobIds :
        /\ j # k
        /\ jobs[j].status = FAILED /\ jobs[k].status = FAILED
        /\ jobs[j].error_message = jobs[k].error_message
        /\ jobs[j].error_message # NULL
        /\ jobs[c].status = COMPLETED
        /\ get_job_status(j).progress_message.detail = jobs[j].error_message
        /\ get_job_status(c).progress_message.text
              = "Processing complete! Your AI training data is ready."

\* The rule order C32 names.
C32_RuleOrder ==
    <<"Setup & Onboarding", "Debugging & Fixes", "Prompts & Templates",
      "Tooling & Integrations", "Business Use Cases", "Automation Workflows",
      "Reviews & Opinions", "News & Updates", "Educational", "Entertainment">>

\* C32 (category inference follows a fixed rule priority): every call of
\* infer_category returns the category of the first rule, in the order Setup
\* & Onboarding, Debugging & Fixes, Prompts & Templates, Tooling &
\* Integrations, Business Use Cases, Automation Workflows, Reviews &
\* Opinions, News & Updates, Educational, Entertainment, whose term list
\* matches the combined title, summary and topics text, General Content
\* when no rule matches, and a later call with the same texts returns what
\* the earlier one returned.
C32_CategoryRulePriority ==
    [][(call'.fn = "infer_category" /\ call'.returned) =>
          LET corpus == <<call'.args.title, call'.args.summary,
                          call'.args.topics>>
              matching == {i \in DOMAIN C32_RuleOrder :
                              contains_any(corpus, CategoryTerms(C32_RuleOrder[i]))}
              first == CHOOSE i \in matching : \A k \in matching : i <= k
          IN  /\ call'.result.category =
                    IF matching = {} THEN "General Content"
                    ELSE C32_RuleOrder[first]
              /\ call.returned => call'.result = call.result]_vars

\* A title matching the rules of both Tooling & Integrations and Automation
\* Workflows got the earlier of the two, and the summary matched a rule
\* later than both.
C32_Witness ==
    /\ call.fn = "infer_category" /\ call.returned
    /\ call.args.title = "automation"
    /\ call.args.summary = "tutorial"
    /\ call.result.category = "Tooling & Integrations"

\* The committed status that names the stage a task is at: the pc is the
\* external call the task issues next or has issued last.
C33_StageStatus(pc) ==
    CASE pc = "download_audio" -> DOWNLOADING
      [] pc \in {"youtube_transcript", "transcribe"} -> TRANSCRIBING
      [] pc \in {"enhance_with_ai", "commit"} -> ENHANCING
      [] OTHER -> NULL

\* C33 (status is persisted before each stage starts): whenever a video task
\* is about to issue, or has issued and not yet handled the answer of, the
\* external call of the download, transcription or enrichment stage, the
\* committed status of its job is the one naming that stage; a crash at
\* that point leaves the status of the stage last started.
C33_StatusPersistedBeforeStage ==
    \A t \in TaskIds :
        (tasks[t].kind = "video" /\ C33_StageStatus(tasks[t].pc) # NULL)
            => jobs[tasks[t].job].status = C33_StageStatus(tasks[t].pc)

\* One task is at the download, one at a transcription and one at the
\* enrichment, each with its job in the status of that stage.
C33_Witness ==
    \E a \in TaskIds, b \in TaskIds, c \in TaskIds :
        /\ tasks[a].kind = "video" /\ tasks[a].pc = "download_audio"
        /\ jobs[tasks[a].job].status = DOWNLOADING
        /\ tasks[b].kind = "video" /\ tasks[b].pc = "youtube_transcript"
        /\ jobs[tasks[b].job].status = TRANSCRIBING
        /\ tasks[c].kind = "video" /\ tasks[c].pc = "enhance_with_ai"
        /\ jobs[tasks[c].job].status = ENHANCING

\* The places at which a task begins an extraction strategy, and the one
\* that begins the first strategy of a resolved method.
C34_StrategyStarts == {"youtube_transcript", "download_audio", "process_whisper_first"}

C34_FirstStrategy(method) ==
    CASE method = "youtube_transcript" -> "youtube_transcript"
      [] method = "download_audio" -> "download_audio"
      [] OTHER -> "process_whisper_first"

C35_RetryOnlyFailedOrStuck ==
    \A j \in JobIds, a \in StuckAges :
        (jobs[j].status \in {DOWNLOADING, TRANSCRIBING, ENHANCING}
            /\ j \notin StuckJobs([k \in JobIds |-> a]))
        => /\ retry_job(j).jobs = jobs
           /\ retry_job(j).tasks = tasks

\* A job 14 minutes into transcribing is retried: the handler answers with
\* an error and the job is still transcribing.
C35_Witness ==
    \E j \in JobIds :
        /\ jobs[j].status = TRANSCRIBING
        /\ j \notin StuckJobs([k \in JobIds |-> 14])
        /\ retry_job(j).result = "500_TypeError"
        /\ retry_job(j).jobs[j].status = TRANSCRIBING

\* C36 (retry rejection leaves state unchanged): retry_job for a job that is
\* Pending or Completed, or for an id no job has, answers with an error,
\* changes no field of any job and queues no task.
C36_RetryRejectionUnchanged ==
    \A j \in 1..(MaxJobs + 1) :
        (j \notin JobIds \/ jobs[j].status \in {PENDING, COMPLETED})
        => /\ retry_job(j).result \in {"400", "404"}
           /\ j \notin JobIds => retry_job(j).result = "404"
           /\ retry_job(j).jobs = jobs
           /\ retry_job(j).tasks = tasks

\* A completed job and a pending job are each refused with 400, and the id
\* after the last job with 404.
C36_Witness ==
    \E j \in JobIds, k \in JobIds :
        /\ jobs[j].status = COMPLETED /\ retry_job(j).result = "400"
        /\ jobs[k].status = PENDING /\ retry_job(k).result = "400"
        /\ retry_job(Len(jobs) + 1).result = "404"

\* What C37 asks of a call of _retry_with_backoff at any moment.
C37_Bounded ==
    call.fn = "_retry_with_backoff" =>
        LET n == Len(call.history)
            max_retries == call.args.max_retries
        IN  /\ n <= max_retries
            /\ \A i \in 1..(n - 1) : call.history[i] = "raise"
            /\ call.returned =>
                  /\ n >= 1
                  /\ call.result.of = n
                  /\ call.result.kind = call.history[n]
                  /\ call.result.kind = "raise" => n = max_retries
            /\ (n >= 1 /\ call.history[n] = "ok") => call.returned

\* C37 (bounded retry with backoff): _retry_with_backoff calls func at most
\* max_retries times; it returns the result of the first call that does not
\* raise and calls func no more; after max_retries calls that all raised it
\* raises the exception of the last one; and every call of it comes back.
C37_BoundedRetryTerminates ==
    /\ []C37_Bounded
    /\ (call.fn = "_retry_with_backoff") ~> call.returned

\* With max_retries = 3, func raised twice and returned at the third call,
\* whose result came back.
C37_Witness ==
    /\ call.fn = "_retry_with_backoff" /\ call.returned
    /\ call.args.max_retries = 3
    /\ call.history = <<"raise", "raise", "ok">>
    /\ call.result = [kind |-> "ok", of |-> 3]

\* C38 (media validation gates transcription): for a downloaded file that is
\* larger than 25 MB, is empty, or holds an HTML document, neither the
\* download and transcribe strategy nor transcribe_audio_with_whisper
\* called on its own calls the Whisper API, and each returns a failure with
\* an error.
C38_MediaValidationGates ==
    (call.fn \in {"download_audio_and_transcribe", "transcribe_audio_with_whisper"}
        /\ call.returned
        /\ call.args.file.exists
        /\ \/ call.args.file.size > 26214400
           \/ call.args.file.size = 0
           \/ call.args.file.header \in {"<html", "<!doctype"})
    => /\ ~call.result.whisper_called
       /\ ~call.result.success
       /\ call.result.error # "none"

\* The strategy was run on an .m4a file one byte over 25 MB, and on an .m4a
\* file that holds an HTML page: both passed download_audio and were
\* refused before the Whisper call.
C38_Witness ==
    /\ call.fn = "download_audio_and_transcribe" /\ call.returned
    /\ call.args.file.ext = ".m4a"
    /\ download_audio(call.args.file).success
    /\ ~call.result.whisper_called
    /\ \/ /\ call.args.file.size = 26214401
          /\ call.args.file.header = "audio"
          /\ call.result.error = "Audio file too large (>25MB)"
       \/ /\ call.args.file.size = 1024
          /\ call.args.file.header = "<html"
          /\ call.result.error = "Downloaded file is HTML, not audio"

\* C39 (progressing jobs are never treated as stuck): a job whose last
\* status transition was persisted less than 15 minutes ago is not listed
\* by get_stuck_jobs and not reset by cleanup_stuck_jobs, and every step of
\* the pipeline that persists a new in-progress status writes the
\* updated_at of the row, which is what the detector compares.
C39_ProgressingNeverStuck ==
    [][\A j \in JobIds :
          /\ \A a \in {x \in StuckAges : x < FifteenMinutes} :
                LET age == [k \in JobIds |-> a]
                IN  /\ j \notin get_stuck_jobs(age).stuck_jobs
                    /\ cleanup_stuck_jobs(age).jobs[j] = jobs[j]
          /\ (jobs'[j].status # jobs[j].status
                /\ jobs'[j].status \in {DOWNLOADING, TRANSCRIBING, ENHANCING})
             => "updated_at" \in DOMAIN jobs'[j]]_vars

\* No row is ever deleted: delete_job answers 404 or raises before
\* db.delete, so every job that was created is still there, and no task
\* runs for a job that is gone.
DeletedJobUnreachable ==
    /\ \A j \in JobIds : jobs[j].status # "deleted"
    /\ \A j \in 1..MaxJobs : delete_job(j).result # "deleted"
    /\ \A t \in TaskIds : tasks[t].kind = "video" => tasks[t].job \in JobIds

=============================================================================
